---- MODULE Spec2Model ----
(***************************************************************************)
(* A model of the pilot-backend repository: the StreamField serializer of  *)
(* mysite/api.py, the page_by_slug endpoint, the pages API serializer      *)
(* patch, the link properties of the navigation and footer snippets and    *)
(* the HomePage page type.                                                 *)
(***************************************************************************)
EXTENDS Integers, Sequences, FiniteSets, TLC

VARIABLES
    value,      \* the StreamValue handed to StreamFieldSerializer.to_representation
    result,     \* what to_representation returned
    ser_pc,     \* "idle" | "start" | "done"
    pages,      \* the page table: id -> page row, or NoPage
    next_id,    \* the id the next created page gets
    last_op,    \* the last operation on the page table and how it ended
    request,    \* the 'slug' query parameter of the last page_by_slug request
    response,   \* the Response page_by_slug returned
    lookups,    \* how many page queries the last request ran
    api_view,   \* the pages API view being served and its serializer's instance
    api_fields, \* the fields of the pages API serializer: <<[name, field]>>
    snippet,    \* a menu, menu item, sub menu item or footer link
    link,       \* what the snippet's link property returned
    obj,        \* an FAQItem, Category, Tag or Badge: [model, text, slug]
    slug_pc,    \* where the object is in its life: "new", "saved", ...
    slug_before,\* the slug the object had when save was last called
    call,       \* a call of the serializer in progress: [fn, arg]
    caller      \* the call that made it, or NoCall

serVars == <<value, result, ser_pc>>
dbVars == <<pages, next_id, last_op>>
reqVars == <<request, response, lookups>>
apiVars == <<api_view, api_fields>>
linkVars == <<snippet, link>>
slugVars == <<obj, slug_pc, slug_before>>
callVars == <<call, caller>>
vars == <<value, result, ser_pc, pages, next_id, last_op, request, response, lookups,
          api_view, api_fields, snippet, link, obj, slug_pc, slug_before, call, caller>>

(***************************************************************************)
(* Python objects.  Every object is a record [tag, atom, kids]: tag is the *)
(* object's class, atom the text of a scalar (what str() or isoformat()    *)
(* gives) and kids the children of a container.  The children of a list,   *)
(* tuple or ListValue are objects, those of a dict or StructValue are      *)
(* [key, val] pairs and those of a StreamValue are blocks                  *)
(* [block_type, value, id].                                                *)
(***************************************************************************)
Obj(t, a, k) == [tag |-> t, atom |-> a, kids |-> k]
PyNone == Obj("None", "", <<>>)
Str(s) == Obj("str", s, <<>>)
PyInt(s) == Obj("int", s, <<>>)
PyList(items) == Obj("list", "", items)
PyDict(entries) == Obj("dict", "", entries)
Entry(k, v) == [key |-> Str(k), val |-> v]

\* str(x): the text of a scalar; str(None) is 'None'.
PyStr(x) == IF x.tag = "None" THEN Str("None") ELSE Str(x.atom)

\* date.isoformat() / datetime.isoformat()
isoformat(x) == Str(x.atom)

\* The attributes of an image that _serialize_value reads.
TheImage == Obj("Image", "<Image: logo>", <<>>)
Image_id(img) == PyInt("7")
Image_title(img) == Str("logo")
Image_file_url(img) == Str("/media/logo.png")
Image_width(img) == PyInt("640")
Image_height(img) == PyInt("480")

BasicTags == {"str", "int", "float", "bool"}

\* hasattr(value, 'items'): dicts and StructValue (an OrderedDict) have it.
hasattr_items(x) == x.tag \in {"StructValue", "dict"}

\* hasattr(block, 'id')
hasattr_id(block) == "id" \in DOMAIN block

RECURSIVE to_representation(_)
RECURSIVE _serialize_block_value(_)
RECURSIVE _serialize_struct_block(_)
RECURSIVE _serialize_value(_)

\* A seeded fault: the default branch of _serialize_block_value returns the
\* object itself instead of handing it to _serialize_value.
serialize_block_value_raw(x) ==
    IF hasattr_items(x) THEN _serialize_struct_block(x)
    ELSE IF x.tag \in BasicTags \cup {"None"} THEN x
    ELSE IF x.tag \in {"list", "tuple"}
         THEN PyList([i \in 1..Len(x.kids) |-> _serialize_block_value(x.kids[i])])
    ELSE x

\* A seeded fault: to_representation puts each block in front of the ones
\* before it (result.insert(0, ...) for result.append(...)).
to_representation_reversed(x) ==
    LET n == Len(x.kids)
    IN  PyList([i \in 1..n |->
            LET block == x.kids[n + 1 - i]
            IN  PyDict(<<Entry("type", Str(block.block_type)),
                         Entry("value", _serialize_block_value(block.value)),
                         Entry("id", IF hasattr_id(block) THEN PyStr(block.id) ELSE PyNone)>>)])

\* StreamFieldSerializer.to_representation
to_representation(x) ==
    PyList([i \in 1..Len(x.kids) |->
        LET block == x.kids[i]
        IN  PyDict(<<Entry("type", Str(block.block_type)),
                     Entry("value", _serialize_block_value(block.value)),
                     Entry("id", IF hasattr_id(block) THEN PyStr(block.id) ELSE PyNone)>>)])

\* StreamFieldSerializer._serialize_block_value
_serialize_block_value(x) ==
    IF hasattr_items(x) THEN _serialize_struct_block(x)
    ELSE IF x.tag \in BasicTags \cup {"None"} THEN x
    ELSE IF x.tag \in {"list", "tuple"}
         THEN PyList([i \in 1..Len(x.kids) |-> _serialize_block_value(x.kids[i])])
    ELSE _serialize_value(x)

\* StreamFieldSerializer._serialize_struct_block
_serialize_struct_block(x) ==
    PyDict([i \in 1..Len(x.kids) |->
        [key |-> x.kids[i].key, val |-> _serialize_value(x.kids[i].val)]])

\* StreamFieldSerializer._serialize_value
_serialize_value(x) ==
    IF x.tag = "None" THEN PyNone
    ELSE IF x.tag \in BasicTags THEN x
    ELSE IF x.tag = "ListValue"
         THEN PyList([i \in 1..Len(x.kids) |-> _serialize_value(x.kids[i])])
    ELSE IF hasattr_items(x) THEN _serialize_struct_block(x)
    ELSE IF x.tag = "StreamValue" THEN to_representation(x)
    ELSE IF x.tag \in {"list", "tuple"}
         THEN PyList([i \in 1..Len(x.kids) |-> _serialize_value(x.kids[i])])
    ELSE IF x.tag = "RichText" THEN PyStr(x)
    ELSE IF x.tag = "Image"
         THEN PyDict(<<Entry("id", Image_id(x)),
                       Entry("title", Image_title(x)),
                       Entry("url", Image_file_url(x)),
                       Entry("width", Image_width(x)),
                       Entry("height", Image_height(x))>>)
    ELSE IF x.tag \in {"date", "datetime"} THEN isoformat(x)
    ELSE PyStr(x)

(***************************************************************************)
(* The calls each method of the serializer makes, as [fn, arg].           *)
(***************************************************************************)
Call(f, x) == [fn |-> f, arg |-> x]

\* to_representation: one call per block, on the block's value.
calls_to_representation(x) ==
    { Call("_serialize_block_value", x.kids[i].value) : i \in 1..Len(x.kids) }

\* A seeded fault: the default branch of _serialize_block_value calls
\* _serialize_block_value for _serialize_value.
calls_serialize_block_value_self(x) ==
    IF hasattr_items(x) THEN {Call("_serialize_struct_block", x)}
    ELSE IF x.tag \in BasicTags \cup {"None"} THEN {}
    ELSE IF x.tag \in {"list", "tuple"}
         THEN { Call("_serialize_block_value", x.kids[i]) : i \in 1..Len(x.kids) }
    ELSE {Call("_serialize_block_value", x)}

\* _serialize_block_value
calls_serialize_block_value(x) ==
    IF hasattr_items(x) THEN {Call("_serialize_struct_block", x)}
    ELSE IF x.tag \in BasicTags \cup {"None"} THEN {}
    ELSE IF x.tag \in {"list", "tuple"}
         THEN { Call("_serialize_block_value", x.kids[i]) : i \in 1..Len(x.kids) }
    ELSE {Call("_serialize_value", x)}

\* _serialize_struct_block: one call per item, on the item's value.
calls_serialize_struct_block(x) ==
    { Call("_serialize_value", x.kids[i].val) : i \in 1..Len(x.kids) }

\* _serialize_value: rich text, images, dates and the default make no call.
calls_serialize_value(x) ==
    IF x.tag = "None" THEN {}
    ELSE IF x.tag \in BasicTags THEN {}
    ELSE IF x.tag = "ListValue"
         THEN { Call("_serialize_value", x.kids[i]) : i \in 1..Len(x.kids) }
    ELSE IF hasattr_items(x) THEN {Call("_serialize_struct_block", x)}
    ELSE IF x.tag = "StreamValue" THEN {Call("to_representation", x)}
    ELSE IF x.tag \in {"list", "tuple"}
         THEN { Call("_serialize_value", x.kids[i]) : i \in 1..Len(x.kids) }
    ELSE {}

Calls(c) ==
    IF c.fn = "to_representation" THEN calls_to_representation(c.arg)
    ELSE IF c.fn = "_serialize_block_value" THEN calls_serialize_block_value(c.arg)
    ELSE IF c.fn = "_serialize_struct_block" THEN calls_serialize_struct_block(c.arg)
    ELSE calls_serialize_value(c.arg)

(***************************************************************************)
(* Pages.  A row of the page table is [id, page_type, slug, live, filled]; *)
(* filled tells whether the row's nullable columns hold a value.  The      *)
(* attributes of the page object are read from the row by getattr.         *)
(***************************************************************************)
NoPage == [id |-> 0]
PageTypes == {"HomePage", "HTMLPage"}
Slugs == {"home", "about"}

PyBool(b) == Obj("bool", IF b THEN "True" ELSE "False", <<>>)
ADatetime == Obj("datetime", "2024-01-02T03:04:05", <<>>)
AStream ==
    Obj("StreamValue", "",
        <<[block_type |-> "hero_section",
           value |-> Obj("StructValue", "",
                         <<[key |-> Str("title"), val |-> Str("Welcome")],
                           [key |-> Str("image"), val |-> TheImage]>>),
           id |-> Str("b1")]>>)

\* The fields wagtail's Page model declares, as Page._meta.get_fields() names
\* them (reverse relations included), and those the page types of
\* home/models.py add.
PageFields ==
    <<"sites_rooted_here", "_revisions", "id", "content_type", "title", "slug",
      "live", "has_unpublished_changes", "first_published_at",
      "last_published_at", "go_live_at", "latest_revision_created_at", "owner",
      "url_path", "seo_title", "search_description">>
HomePageFields ==
    <<"page_ptr", "hero_title", "hero_subtitle", "hero_image", "hero_cta_text",
      "hero_cta_link", "about_title", "about_content", "content_sections">>
HTMLPageFields == <<"page_ptr", "body">>

\* page._meta.get_fields()
_meta_get_fields(page) ==
    IF page.page_type = "HomePage" THEN PageFields \o HomePageFields
    ELSE IF page.page_type = "HTMLPage" THEN PageFields \o HTMLPageFields
    ELSE PageFields

Range(seq) == { seq[i] : i \in 1..Len(seq) }

\* getattr(page, name, None)
getattr(page, name) ==
    IF name \notin Range(_meta_get_fields(page)) THEN PyNone
    ELSE IF name = "id" THEN PyInt(ToString(page.id))
    ELSE IF name = "slug" THEN Str(page.slug)
    ELSE IF name = "live" THEN PyBool(page.live)
    ELSE IF name = "has_unpublished_changes" THEN PyBool(~page.live)
    ELSE IF name = "url_path" THEN Str("/home/" \o page.slug \o "/")
    ELSE IF name \in {"first_published_at", "last_published_at", "go_live_at"}
         THEN IF page.filled THEN ADatetime ELSE PyNone
    ELSE IF name = "latest_revision_created_at" THEN ADatetime
    ELSE IF name = "owner"
         THEN IF page.filled THEN Obj("User", "editor", <<>>) ELSE PyNone
    ELSE IF name = "hero_image" THEN IF page.filled THEN TheImage ELSE PyNone
    ELSE IF name = "content_sections"
         THEN IF page.filled THEN AStream ELSE Obj("StreamValue", "", <<>>)
    ELSE IF name \in {"sites_rooted_here", "_revisions"}
         THEN Obj("RelatedManager", "", <<>>)
    ELSE IF name = "content_type" THEN Obj("ContentType", page.page_type, <<>>)
    ELSE IF name = "page_ptr" THEN Obj("Page", "Page " \o page.slug, <<>>)
    ELSE IF name = "title" THEN Str("Page " \o page.slug)
    ELSE IF name \in {"seo_title", "search_description", "hero_subtitle",
                      "hero_cta_text", "hero_cta_link"} THEN Str("")
    ELSE Str("text of " \o name)

\* callable(x): a related manager defines __call__.
callable(x) == x.tag = "RelatedManager"

\* hasattr(field_value, 'stream_block')
hasattr_stream_block(x) == x.tag = "StreamValue"

\* The rows of the table.
Existing(db) == { db[i] : i \in DOMAIN db } \ {NoPage}

(***************************************************************************)
(* page_by_slug.                                                           *)
(***************************************************************************)
HTTP_400_BAD_REQUEST == 400
HTTP_404_NOT_FOUND == 404
HTTP_200_OK == 200

\* A seeded fault: 'if slug is None' for 'if not slug'.
not_is_none(x) == x.tag = "None"

\* Python's 'not x' for None and strings (line 174: if not slug).
not_(x) == x.tag = "None" \/ (x.tag = "str" /\ x.atom = "")

\* Page.objects.filter(slug=slug), .live() and .first() (by primary key).
filter_slug(db, slug) == { p \in Existing(db) : p.slug = slug }
live(qs) == { p \in qs : p.live }
first(qs) ==
    IF qs = {} THEN NoPage
    ELSE CHOOSE p \in qs : \A q \in qs : p.id <= q.id

\* A seeded fault: the query without .live().
find_page_any(db, slug) == first(filter_slug(db, slug))

\* Page.objects.filter(slug=slug).live().first()
find_page(db, slug) == first(live(filter_slug(db, slug)))

\* page.specific: the row of the page's own type.
specific(db, page) == db[page.id]

\* The response of line 175.
bad_request ==
    [status |-> HTTP_400_BAD_REQUEST,
     data |-> PyDict(<<Entry("error", Str("slug parameter is required"))>>)]

\* A seeded fault: the Response built without status=.
not_found_200(slug) ==
    [status |-> HTTP_200_OK,
     data |-> PyDict(<<Entry("error", Str("Page with slug \"" \o slug \o "\" not found"))>>)]

\* The response of line 185.
not_found(slug) ==
    [status |-> HTTP_404_NOT_FOUND,
     data |-> PyDict(<<Entry("error", Str("Page with slug \"" \o slug \o "\" not found"))>>)]

\* The dict of lines 194-205.
base_data(page) ==
    PyDict(<<Entry("id", getattr(page, "id")),
             Entry("title", getattr(page, "title")),
             Entry("slug", getattr(page, "slug")),
             Entry("url_path", getattr(page, "url_path")),
             Entry("seo_title", getattr(page, "seo_title")),
             Entry("search_description", getattr(page, "search_description")),
             Entry("live", getattr(page, "live")),
             Entry("has_unpublished_changes", getattr(page, "has_unpublished_changes")),
             Entry("first_published_at", getattr(page, "first_published_at")),
             Entry("last_published_at", getattr(page, "last_published_at"))>>)

\* The helper of lines 208-236.
serialize_field_value(field_value) ==
    IF hasattr_stream_block(field_value) THEN to_representation(field_value)
    ELSE IF field_value.tag = "RichText" THEN PyStr(field_value)
    ELSE IF field_value.tag = "Image"
         THEN PyDict(<<Entry("id", Image_id(field_value)),
                       Entry("title", Image_title(field_value)),
                       Entry("url", Image_file_url(field_value)),
                       Entry("width", Image_width(field_value)),
                       Entry("height", Image_height(field_value))>>)
    ELSE IF field_value.tag \in {"date", "datetime"} THEN isoformat(field_value)
    ELSE field_value

\* field_name.startswith('_')
startswith_underscore(name) == name \in {"_revisions", "_workflow_states"}

\* 'field_name in data'
has_key(d, k) == \E i \in 1..Len(d.kids) : d.kids[i].key = Str(k)

\* The loop of lines 239-252 over the field names.
RECURSIVE add_fields(_, _, _)
add_fields(data, page, names) ==
    IF names = <<>> THEN data
    ELSE LET field_name == Head(names)
             field_value == getattr(page, field_name)
             serialized_value == serialize_field_value(field_value)
             stored ==
                 IF serialized_value.tag \in
                        {"str", "int", "bool", "float", "list", "dict", "None"}
                 THEN serialized_value
                 ELSE PyStr(serialized_value)
             new_data ==
                 IF /\ ~has_key(data, field_name)
                    /\ ~startswith_underscore(field_name)
                    /\ field_name \notin {"page_ptr", "content_type"}
                    /\ field_value.tag # "None"
                    /\ ~callable(field_value)
                 THEN PyDict(Append(data.kids, Entry(field_name, stored)))
                 ELSE data
         IN  add_fields(new_data, page, Tail(names))

\* page_by_slug: the response and the number of page queries it ran.
page_by_slug(db, slug) ==
    IF not_(slug) THEN [resp |-> bad_request, queries |-> 0]
    ELSE LET found == find_page(db, slug.atom)
         IN  IF found = NoPage
             THEN [resp |-> not_found(slug.atom), queries |-> 1]
             ELSE LET page == specific(db, found)
                  IN  [resp |-> [status |-> HTTP_200_OK,
                                 data |-> add_fields(base_data(page), page,
                                                     _meta_get_fields(page))],
                       queries |-> 2]

(***************************************************************************)
(* CustomPagesAPIViewSet.get_serializer_class.                             *)
(***************************************************************************)
\* HomePage.api_fields and HTMLPage.api_fields
api_fields_of(model) ==
    IF model = "HomePage"
    THEN <<"hero_title", "hero_subtitle", "hero_image", "hero_cta_text",
           "hero_cta_link", "about_title", "about_content", "content_sections">>
    ELSE IF model = "HTMLPage" THEN <<"body">>
    ELSE <<>>

\* The fields the serializer class of the framework computes: the default
\* Field for the id, the title and the api_fields of the model.
original_get_fields(model) ==
    LET names == <<"id", "title">> \o api_fields_of(model)
    IN  [i \in 1..Len(names) |-> [name |-> names[i], field |-> "Field"]]

\* hasattr(self.instance, field_name): a page has its model's fields; a
\* collection of pages and None have none of them.
hasattr_instance(instance, field_name) ==
    /\ instance.kind = "page"
    /\ field_name \in Range(_meta_get_fields(instance.page))

\* The get_fields that get_serializer_class installs (lines 147-155).
get_fields(instance, model) ==
    LET fields == original_get_fields(model)
    IN  [i \in 1..Len(fields) |->
            IF /\ hasattr_instance(instance, fields[i].name)
               /\ hasattr_stream_block(getattr(instance.page, fields[i].name))
            THEN [name |-> fields[i].name, field |-> "StreamFieldSerializer"]
            ELSE fields[i]]

(***************************************************************************)
(* The link property of NavigationMenu, MenuItem, SubMenuItem (navigation/ *)
(* models.py) and FooterLink (footer/models.py).  A snippet is             *)
(* [model, link_page, link_url]; link_page is None or a page [tag, url].   *)
(***************************************************************************)
\* bool(x) of 'if x:': None and '' are false, a model instance is true.
truthy(x) == ~(x.tag = "None" \/ (x.tag = "str" /\ x.atom = ""))

NavigationMenu_link(self) ==
    IF truthy(self.link_page) THEN self.link_page.url ELSE self.link_url

\* A seeded fault: 'return self.link_page.url or self.link_url'.
MenuItem_link_or(self) ==
    IF truthy(self.link_page) /\ truthy(self.link_page.url) THEN self.link_page.url
    ELSE self.link_url

MenuItem_link(self) ==
    IF truthy(self.link_page) THEN self.link_page.url ELSE self.link_url

SubMenuItem_link(self) ==
    IF truthy(self.link_page) THEN self.link_page.url ELSE self.link_url

FooterLink_link(self) ==
    IF truthy(self.link_page) THEN self.link_page.url ELSE self.link_url

(***************************************************************************)
(* Page creation.  HomePage declares max_count = 1; the framework refuses  *)
(* to create a page of a type that already has max_count pages.            *)
(***************************************************************************)
HomePage_max_count == 1

\* A seeded fault: HomePage without its max_count.
max_count_unset(page_type) == <<>>

\* cls.max_count, as <<n>>, or <<>> for None: 1 for HomePage, None (no limit)
\* for the page types that do not set it.
max_count(page_type) ==
    IF page_type = "HomePage" THEN <<HomePage_max_count>> ELSE <<>>

CountOf(db, t) == Cardinality({ i \in DOMAIN db : db[i] # NoPage /\ db[i].page_type = t })

\* Whether a page of the type may be created.
can_create(db, page_type) ==
    max_count(page_type) = <<>> \/ CountOf(db, page_type) < max_count(page_type)[1]

(***************************************************************************)
(* Slugs.  A text is a sequence of characters.  slugify is                 *)
(* django.utils.text.slugify: fold to ASCII, lower the case, drop what is  *)
(* not a word character, white space or a hyphen, turn every run of white  *)
(* space and hyphens into one hyphen and strip hyphens and underscores     *)
(* from both ends.                                                         *)
(***************************************************************************)
FAQItem_slug_source_length == 100

lower(c) == IF c = "B" THEN "b" ELSE c
is_word(c) == c \in {"a", "b", "B", "_"}
is_space(c) == c = " "

\* s[:n]
slice(s, n) == SubSeq(s, 1, IF Len(s) < n THEN Len(s) ELSE n)

\* re.sub(r'[^\w\s-]', '', value.lower())
drop_other(s) ==
    SelectSeq([i \in 1..Len(s) |-> lower(s[i])],
              LAMBDA c : is_word(c) \/ is_space(c) \/ c = "-")

\* re.sub(r'[-\s]+', '-', value): the first character of every run of
\* hyphens and white space becomes a hyphen, the rest of the run goes.
is_separator(c) == c = "-" \/ is_space(c)
hyphenate(s) ==
    SelectSeq([i \in 1..Len(s) |->
                  IF ~is_separator(s[i]) THEN s[i]
                  ELSE IF i > 1 /\ is_separator(s[i - 1]) THEN ""
                  ELSE "-"],
              LAMBDA c : c # "")

\* value.strip('-_')
strip(s) ==
    LET keep == { i \in 1..Len(s) : s[i] \notin {"-", "_"} }
    IN  IF keep = {} THEN <<>>
        ELSE SubSeq(s, CHOOSE i \in keep : \A j \in keep : i <= j,
                       CHOOSE i \in keep : \A j \in keep : i >= j)

slugify(s) == strip(hyphenate(drop_other(s)))

\* A seeded fault: the slug is generated on every save.
FAQItem_save_always(self) ==
    [self EXCEPT !.slug = slugify(slice(self.question, FAQItem_slug_source_length))]

\* FAQItem.save
FAQItem_save(self) ==
    IF self.slug = <<>>
    THEN [self EXCEPT !.slug = slugify(slice(self.question, FAQItem_slug_source_length))]
    ELSE self

Category_save(self) ==
    IF self.slug = <<>> THEN [self EXCEPT !.slug = slugify(self.name)] ELSE self

\* A seeded fault: the slug follows the name on every save.
Tag_save_always(self) == [self EXCEPT !.slug = slugify(self.name)]

Tag_save(self) ==
    IF self.slug = <<>> THEN [self EXCEPT !.slug = slugify(self.name)] ELSE self

Badge_save(self) ==
    IF self.slug = <<>> THEN [self EXCEPT !.slug = slugify(self.name)] ELSE self

(***************************************************************************)
(* The content trees the serializer is run on.                             *)
(***************************************************************************)
MaxDepth == 3   \* nesting depth of a block's value
MaxLen == 2     \* children of a container, blocks of a stream

Leaves ==
    { PyNone, Str("hello"), PyInt("42"), Obj("float", "1.5", <<>>),
      Obj("bool", "True", <<>>), Obj("RichText", "<p>hi</p>", <<>>), TheImage,
      Obj("date", "2024-01-02", <<>>),
      Obj("datetime", "2024-01-02T03:04:05", <<>>),
      Obj("Decimal", "9.99", <<>>) }

\* The leaves the wide containers are filled with.
WideLeaves ==
    { Str("hello"), Obj("RichText", "<p>hi</p>", <<>>), TheImage,
      Obj("date", "2024-01-02", <<>>) }

Containers == {"list", "tuple", "ListValue", "StructValue", "StreamValue"}
FieldNames == <<"title", "body", "image", "when", "extra">>
BlockIds == <<"b1", "b2", "b3", "b4", "b5">>

\* A container of class c holding the objects of the sequence s.
Wrap(c, s) ==
    IF c = "StructValue"
    THEN Obj(c, "", [i \in 1..Len(s) |-> [key |-> Str(FieldNames[i]), val |-> s[i]]])
    ELSE IF c = "StreamValue"
    THEN Obj(c, "", [i \in 1..Len(s) |->
            [block_type |-> "item", value |-> s[i], id |-> Str(BlockIds[i])]])
    ELSE Obj(c, "", s)

Wide ==
    { Wrap(c, s) : c \in Containers,
                   s \in UNION { [1..n -> WideLeaves] : n \in 2..MaxLen } }

RECURSIVE Vals(_)
Vals(d) ==
    IF d = 0 THEN Leaves
    ELSE LET sub == Vals(d - 1)
         IN  Leaves \cup Wide
             \cup { Wrap(c, s) : c \in Containers, s \in {<<>>} \cup { <<v>> : v \in sub } }

TopBlocks ==
    [ block_type : {"hero", "text"},
      value : {Str("hello"), Obj("date", "2024-01-02", <<>>)},
      id : {PyNone, Str("b1")} ]

Inputs ==
    { Obj("StreamValue", "", <<[block_type |-> "hero", value |-> v, id |-> Str("b1")]>>) :
        v \in Vals(MaxDepth) }
    \cup { Obj("StreamValue", "", s) : s \in UNION { [1..n -> TopBlocks] : n \in 0..MaxLen } }

(***************************************************************************)
(* The serializer run on one stream.                                       *)
(***************************************************************************)
NoResponse == [status |-> 0, data |-> PyNone]

IdleSerializer == value = PyNone /\ result = PyNone /\ ser_pc = "idle"
IdleRequests == request = PyNone /\ response = NoResponse /\ lookups = 0
NoOp == [op |-> "none"]
IdleTable == pages = <<>> /\ next_id = 1 /\ last_op = NoOp
IdleAPI == api_view = [kind |-> "none"] /\ api_fields = <<>>
IdleLink == snippet = [model |-> "none"] /\ link = PyNone
NoCall == [fn |-> "none"]
IdleSlug == obj = [model |-> "none"] /\ slug_pc = "idle" /\ slug_before = <<>>
IdleCalls == call = NoCall /\ caller = NoCall

InitSerializer ==
    /\ value \in Inputs
    /\ result = PyNone
    /\ ser_pc = "start"
    /\ IdleTable /\ IdleRequests /\ IdleAPI /\ IdleLink /\ IdleSlug /\ IdleCalls

Serialize ==
    /\ ser_pc = "start"
    /\ result' = to_representation(value)
    /\ ser_pc' = "done"
    /\ UNCHANGED <<value, dbVars, reqVars, apiVars, linkVars, slugVars, callVars>>

NextSerializer == Serialize

SpecSerializer == InitSerializer /\ [][NextSerializer]_vars

(***************************************************************************)
(* page_by_slug run against a page table.                                  *)
(***************************************************************************)
MaxPages == 2   \* rows of the page table page_by_slug is run on

Rows(i) ==
    [ id : {i}, page_type : PageTypes, slug : Slugs, live : BOOLEAN,
      filled : BOOLEAN ]

\* The tables the site can hold: row i has id i, and the HomePage rows are
\* no more than HomePage.max_count.
Tables ==
    { db \in [1..MaxPages -> UNION { Rows(i) : i \in 1..MaxPages } \cup {NoPage}] :
        /\ \A i \in 1..MaxPages : db[i] # NoPage => db[i].id = i
        /\ CountOf(db, "HomePage") <= HomePage_max_count }

SlugParams == {PyNone, Str(""), Str("home"), Str("about"), Str("contact")}

InitPageBySlug ==
    /\ pages \in Tables
    /\ next_id = MaxPages + 1
    /\ last_op = NoOp
    /\ IdleRequests /\ IdleSerializer /\ IdleAPI /\ IdleLink /\ IdleSlug /\ IdleCalls

PageBySlug ==
    \E slug \in SlugParams :
        LET r == page_by_slug(pages, slug)
        IN  /\ request' = slug
            /\ response' = r.resp
            /\ lookups' = r.queries
            /\ UNCHANGED <<dbVars, serVars, apiVars, linkVars, slugVars, callVars>>

NextPageBySlug == PageBySlug

SpecPageBySlug == InitPageBySlug /\ [][NextPageBySlug]_vars

(***************************************************************************)
(* The pages API serving a detail view or a listing.                       *)
(***************************************************************************)
\* The live pages of a type, by id: the queryset of a listing.
RECURSIVE Listing(_, _, _)
Listing(db, t, i) ==
    IF i > Len(db) THEN <<>>
    ELSE IF db[i] # NoPage /\ db[i].page_type = t /\ db[i].live
         THEN <<db[i]>> \o Listing(db, t, i + 1)
         ELSE Listing(db, t, i + 1)

InitPagesAPI ==
    /\ pages \in Tables
    /\ next_id = MaxPages + 1
    /\ last_op = NoOp
    /\ IdleRequests /\ IdleSerializer /\ IdleAPI /\ IdleLink /\ IdleSlug /\ IdleCalls

\* GET pages/<id>/: the serializer is built on the page.
DetailView ==
    \E p \in Existing(pages) :
        /\ p.live
        /\ api_view' = [kind |-> "detail", model |-> p.page_type,
                        instance |-> [kind |-> "page", page |-> p],
                        serialized |-> <<p>>]
        /\ api_fields' = get_fields([kind |-> "page", page |-> p], p.page_type)
        /\ UNCHANGED <<dbVars, reqVars, serVars, linkVars, slugVars, callVars>>

\* GET pages/?type=<model>: the serializer is built with many=True, and the
\* instance of the page serializer is the collection.
ListingView ==
    \E t \in PageTypes :
        LET qs == Listing(pages, t, 1)
            inst == [kind |-> "collection", items |-> qs]
        IN  /\ api_view' = [kind |-> "listing", model |-> t, instance |-> inst,
                            serialized |-> qs]
            /\ api_fields' = get_fields(inst, t)
            /\ UNCHANGED <<dbVars, reqVars, serVars, linkVars, slugVars, callVars>>

NextPagesAPI == DetailView \/ ListingView

SpecPagesAPI == InitPagesAPI /\ [][NextPagesAPI]_vars

(***************************************************************************)
(* The link property read on a snippet.                                    *)
(***************************************************************************)
Unread == Obj("unread", "", <<>>)
LinkModels == {"NavigationMenu", "MenuItem", "SubMenuItem", "FooterLink"}
PageUrls == {PyNone, Str(""), Str("/about/"), Str("http://docs.example.org/about/")}
LinkPages == {PyNone} \cup { [tag |-> "Page", url |-> u] : u \in PageUrls }
LinkUrls == {Str(""), Str("/contact"), Str("https://example.com/")}

InitLink ==
    /\ snippet \in [model : LinkModels, link_page : LinkPages, link_url : LinkUrls]
    /\ link = Unread
    /\ IdleTable /\ IdleRequests /\ IdleSerializer /\ IdleAPI /\ IdleSlug /\ IdleCalls

ReadLink ==
    /\ link = Unread
    /\ link' = IF snippet.model = "NavigationMenu" THEN NavigationMenu_link(snippet)
               ELSE IF snippet.model = "MenuItem" THEN MenuItem_link(snippet)
               ELSE IF snippet.model = "SubMenuItem" THEN SubMenuItem_link(snippet)
               ELSE FooterLink_link(snippet)
    /\ UNCHANGED <<snippet, dbVars, reqVars, serVars, apiVars, slugVars, callVars>>

NextLink == ReadLink

SpecLink == InitLink /\ [][NextLink]_vars

(***************************************************************************)
(* Pages created and deleted.                                              *)
(***************************************************************************)
MaxIds == 2     \* page ids handed out

InitSite ==
    /\ pages = [i \in 1..MaxIds |-> NoPage]
    /\ next_id = 1
    /\ last_op = NoOp
    /\ IdleRequests /\ IdleSerializer /\ IdleAPI /\ IdleLink /\ IdleSlug /\ IdleCalls

\* An editor asks for a new page of a type: it is created unless the type
\* has its max_count of pages already.
CreatePage ==
    \E row \in Rows(next_id) :
        /\ next_id <= MaxIds
        /\ IF can_create(pages, row.page_type)
           THEN /\ pages' = [pages EXCEPT ![next_id] = row]
                /\ next_id' = next_id + 1
                /\ last_op' = [op |-> "create", page_type |-> row.page_type,
                               before |-> CountOf(pages, row.page_type), ok |-> TRUE]
           ELSE /\ last_op' = [op |-> "create", page_type |-> row.page_type,
                               before |-> CountOf(pages, row.page_type), ok |-> FALSE]
                /\ UNCHANGED <<pages, next_id>>
        /\ UNCHANGED <<reqVars, serVars, apiVars, linkVars, slugVars, callVars>>

DeletePage ==
    \E i \in DOMAIN pages :
        /\ pages[i] # NoPage
        /\ pages' = [pages EXCEPT ![i] = NoPage]
        /\ last_op' = [op |-> "delete", page_type |-> pages[i].page_type,
                       before |-> CountOf(pages, pages[i].page_type), ok |-> TRUE]
        /\ UNCHANGED <<next_id, reqVars, serVars, apiVars, linkVars, slugVars, callVars>>

NextSite == CreatePage \/ DeletePage

SpecSite == InitSite /\ [][NextSite]_vars

(***************************************************************************)
(* Objects with a slug, saved, saved again, edited and saved.              *)
(***************************************************************************)
MaxChars == 3   \* characters of a name, and of a question after its padding

Alphabet == {"a", "B", " ", "-", "_", "?"}
Texts == UNION { [1..n -> Alphabet] : n \in 0..MaxChars }

\* A question that fills all but one of the characters the slug is made of.
Padding == [i \in 1..(FAQItem_slug_source_length - 1) |-> "a"]
Questions == Texts \cup { Padding \o t : t \in Texts }

TaxonomyModels == {"Category", "Tag", "Badge"}
GivenSlugs == {<<>>, <<"f", "a", "q">>}
EditedTexts == {<<"B", "a">>, <<"?">>}

TextOf(o) == IF o.model = "FAQItem" THEN o.question ELSE o.name

InitSlug ==
    /\ obj \in [model : {"FAQItem"}, question : Questions, slug : GivenSlugs]
              \cup [model : TaxonomyModels, name : Texts, slug : GivenSlugs]
    /\ slug_pc = "new"
    /\ slug_before = <<>>
    /\ IdleTable /\ IdleRequests /\ IdleSerializer /\ IdleAPI /\ IdleLink /\ IdleCalls

\* obj.save()
Save ==
    /\ slug_pc \in {"new", "saved", "edited"}
    /\ slug_before' = obj.slug
    /\ obj' = IF obj.model = "FAQItem" THEN FAQItem_save(obj)
              ELSE IF obj.model = "Category" THEN Category_save(obj)
              ELSE IF obj.model = "Tag" THEN Tag_save(obj)
              ELSE Badge_save(obj)
    /\ slug_pc' = IF slug_pc = "new" THEN "saved"
                  ELSE IF slug_pc = "saved" THEN "saved again"
                  ELSE "saved after edit"
    /\ UNCHANGED <<dbVars, reqVars, serVars, apiVars, linkVars, callVars>>

\* The question or the name of a saved object is changed.
EditText ==
    \E t \in EditedTexts :
        /\ slug_pc = "saved"
        /\ t # TextOf(obj)
        /\ obj' = IF obj.model = "FAQItem" THEN [obj EXCEPT !.question = t]
                  ELSE [obj EXCEPT !.name = t]
        /\ slug_pc' = "edited"
        /\ UNCHANGED <<slug_before, dbVars, reqVars, serVars, apiVars, linkVars, callVars>>

NextSlug == Save \/ EditText

SpecSlug == InitSlug /\ [][NextSlug]_vars

(***************************************************************************)
(* The serializer followed call by call, down any one path of its calls.   *)
(***************************************************************************)
CallInputs ==
    { Obj("StreamValue", "", <<[block_type |-> "hero", value |-> v, id |-> Str("b1")]>>) :
        v \in Vals(MaxDepth - 1) }
    \cup { Obj("StreamValue", "", s) : s \in UNION { [1..n -> TopBlocks] : n \in 0..MaxLen } }

InitCalls ==
    /\ call \in { Call("to_representation", x) : x \in CallInputs }
    /\ caller = NoCall
    /\ IdleTable /\ IdleRequests /\ IdleSerializer /\ IdleAPI /\ IdleLink /\ IdleSlug

\* The call in progress makes one of its calls.
Descend ==
    \E c \in Calls(call) :
        /\ caller' = call
        /\ call' = c
        /\ UNCHANGED <<dbVars, reqVars, serVars, apiVars, linkVars, slugVars>>

NextCalls == Descend

SpecCalls == InitCalls /\ [][NextCalls]_vars

(***************************************************************************)
(* Properties of the serializer.                                           *)
(***************************************************************************)
\* The objects directly inside a container.
Children(x) ==
    IF hasattr_items(x) THEN [i \in 1..Len(x.kids) |-> x.kids[i].val]
    ELSE IF x.tag = "StreamValue" THEN [i \in 1..Len(x.kids) |-> x.kids[i].value]
    ELSE x.kids

\* Whether an object of class t occurs in x, at any depth.
RECURSIVE Contains(_, _)
Contains(x, t) ==
    \/ x.tag = t
    \/ \E i \in 1..Len(x.kids) : Contains(Children(x)[i], t)

\* Generic JSON: null, booleans, numbers, strings, lists of JSON values and
\* dicts from strings to JSON values.
RECURSIVE IsJSON(_)
IsJSON(x) ==
    \/ x.tag \in {"None", "bool", "int", "float", "str"}
    \/ /\ x.tag = "list"
       /\ \A i \in 1..Len(x.kids) : IsJSON(x.kids[i])
    \/ /\ x.tag = "dict"
       /\ \A i \in 1..Len(x.kids) : x.kids[i].key.tag = "str" /\ IsJSON(x.kids[i].val)

\* The keys of a dict, and the value under a key.
Keys(d) == { d.kids[i].key : i \in 1..Len(d.kids) }
Get(d, k) == (CHOOSE i \in 1..Len(d.kids) : d.kids[i].key = Str(k)) 

\* C1: what to_representation returns is generic JSON at every depth: no
\* rich text, image, date, list value, struct value or stream value is left
\* anywhere in it.
C1_OnlyJSON == ser_pc = "done" => IsJSON(result)

\* A stream whose block holds a struct holding a list value holding a nested
\* stream holding a date has been serialized.
C1_Witness ==
    /\ ser_pc = "done"
    /\ Len(value.kids) = 1
    /\ value.kids[1].value.tag = "StructValue"
    /\ Contains(value, "ListValue")
    /\ Contains(value.kids[1].value, "StreamValue")
    /\ Contains(value, "date")
    /\ ~Contains(result, "date")

\* C2: to_representation returns a list with one entry per block, in the
\* stream's order; each entry is a dict with exactly the keys type, value and
\* id; type is the block's block_type and value is what
\* _serialize_block_value gives for the block's value.
C2_OneEntryPerBlock ==
    ser_pc = "done" =>
        /\ result.tag = "list"
        /\ Len(result.kids) = Len(value.kids)
        /\ \A i \in 1..Len(value.kids) :
              LET e == result.kids[i]
                  b == value.kids[i]
              IN  /\ e.tag = "dict"
                  /\ Len(e.kids) = 3
                  /\ Keys(e) = {Str("type"), Str("value"), Str("id")}
                  /\ e.kids[Get(e, "type")].val = Str(b.block_type)
                  /\ e.kids[Get(e, "value")].val = _serialize_block_value(b.value)
                  /\ b.value.tag \in BasicTags => e.kids[Get(e, "value")].val = b.value

\* A stream of two blocks of different types and values has been serialized.
C2_Witness ==
    /\ ser_pc = "done"
    /\ Len(value.kids) = 2
    /\ value.kids[1].block_type = "hero"
    /\ value.kids[2].block_type = "text"
    /\ value.kids[1].value.tag = "str"
    /\ value.kids[2].value.tag = "date"
    /\ Len(result.kids) = 2

(***************************************************************************)
(* Properties of page_by_slug.                                             *)
(***************************************************************************)
Responded == response # NoResponse
ValueOf(d, k) == d.kids[Get(d, k)].val
ErrorBody(text) == PyDict(<<Entry("error", Str(text))>>)

\* The page a 200 response describes: the row whose id the body carries.
Described == { p \in Existing(pages) : PyInt(ToString(p.id)) = ValueOf(response.data, "id") }

\* C3: without a slug parameter, or with an empty one, page_by_slug answers
\* 400 with the body {'error': 'slug parameter is required'} and runs no
\* page query.
C3_MissingSlugIs400 ==
    (Responded /\ request \in {PyNone, Str("")}) =>
        /\ response.status = 400
        /\ response.data = ErrorBody("slug parameter is required")
        /\ lookups = 0

\* A request with an empty slug was answered while the table holds a page.
C3_Witness ==
    /\ Responded
    /\ request = Str("")
    /\ Existing(pages) # {}
    /\ response.status = 400

\* C4: with a non-empty slug that no live page has, page_by_slug answers 404
\* with a body whose only key is 'error' and whose text names the slug, also
\* when unpublished pages have the slug.
C4_NoLivePageIs404 ==
    (/\ Responded
     /\ request \notin {PyNone, Str("")}
     /\ \A p \in Existing(pages) : p.slug = request.atom => ~p.live) =>
        /\ response.status = 404
        /\ response.data = ErrorBody("Page with slug \"" \o request.atom \o "\" not found")

\* The slug asked for is that of unpublished pages only.
C4_Witness ==
    /\ Responded
    /\ request = Str("about")
    /\ \E p \in Existing(pages) : p.slug = "about"
    /\ \A p \in Existing(pages) : p.slug = "about" => ~p.live
    /\ response.status = 404

\* C5: a 200 response describes one existing page, whose slug is the
\* requested one and which is live, and says so in its 'slug' and 'live'.
C5_OkIsLivePageOfSlug ==
    response.status = 200 =>
        /\ request.tag = "str"
        /\ Cardinality(Described) = 1
        /\ \A p \in Described : p.slug = request.atom /\ p.live
        /\ ValueOf(response.data, "slug") = request
        /\ ValueOf(response.data, "live") = PyBool(TRUE)

\* Two pages share the slug, the one with the lower id is unpublished, and
\* the request was answered 200.
C5_Witness ==
    /\ response.status = 200
    /\ Cardinality({ p \in Existing(pages) : p.slug = request.atom }) = 2
    /\ \E p \in Existing(pages) : p.slug = request.atom /\ ~p.live /\ p.id = 1

\* C6: the 200 response has a key for every field of the page's model whose
\* name does not start with '_' and is not page_ptr or content_type.
C6_AllFieldsPresent ==
    response.status = 200 =>
        \A p \in Described :
            \A name \in Range(_meta_get_fields(p)) :
                (~startswith_underscore(name) /\ name \notin {"page_ptr", "content_type"})
                    => has_key(response.data, name)

\* C7: every top-level value of a 200 response is a plain JSON value, and
\* the date and datetime fields of the page are strings.
PlainTags == {"None", "bool", "int", "float", "str", "list", "dict"}
C7_TopLevelPlainJSON ==
    response.status = 200 =>
        \A i \in 1..Len(response.data.kids) :
            response.data.kids[i].val.tag \in PlainTags

(***************************************************************************)
(* Properties of the pages API serializer.                                 *)
(***************************************************************************)
\* C8: whenever the fields of the pages API serializer are computed, in a
\* detail view and in a listing, every field that holds a stream value on a
\* page being serialized is a StreamFieldSerializer.
C8_StreamFieldsReplaced ==
    api_view.kind # "none" =>
        \A i \in 1..Len(api_view.serialized) :
            \A j \in 1..Len(api_fields) :
                hasattr_stream_block(getattr(api_view.serialized[i], api_fields[j].name))
                    => api_fields[j].field = "StreamFieldSerializer"

(***************************************************************************)
(* Properties of the link property.                                        *)
(***************************************************************************)
\* C9: link is the url of link_page whenever link_page is set, whatever
\* link_url and that url are, and is link_url when link_page is unset; the
\* four implementations agree on every snippet.
C9_LinkPrefersPage ==
    link # Unread =>
        /\ snippet.link_page # PyNone => link = snippet.link_page.url
        /\ snippet.link_page = PyNone => link = snippet.link_url
        /\ \A m \in LinkModels :
              LET other == [snippet EXCEPT !.model = m]
              IN  /\ NavigationMenu_link(other) = link
                  /\ MenuItem_link(other) = link
                  /\ SubMenuItem_link(other) = link
                  /\ FooterLink_link(other) = link

\* A menu item with both a page whose url is None and a link_url was read.
C9_Witness ==
    /\ link = PyNone
    /\ snippet.model = "MenuItem"
    /\ snippet.link_page # PyNone
    /\ snippet.link_page.url = PyNone
    /\ snippet.link_url = Str("/contact")

Saved == slug_pc \in {"saved", "saved again", "saved after edit"}
First100(q) == IF Len(q) <= 100 THEN q ELSE SubSeq(q, 1, 100)

\* C11: FAQItem.save makes the slug only if there is none: a slug that is
\* empty before the save becomes the slugified first 100 characters of the
\* question, and a slug that is not empty is left as it was, also when the
\* question was changed after the slug was made.
C11_FAQSlugOnlyIfEmpty ==
    (Saved /\ obj.model = "FAQItem") =>
        IF slug_before = <<>>
        THEN obj.slug = slugify(First100(obj.question))
        ELSE obj.slug = slug_before

\* An FAQ item whose slug was made from a question longer than 100
\* characters was given another question and saved: it keeps the slug.
C11_Witness ==
    /\ slug_pc = "saved after edit"
    /\ obj.model = "FAQItem"
    /\ obj.question = <<"B", "a">>
    /\ Len(obj.slug) = 100
    /\ obj.slug[100] = "b"
    /\ obj.slug # slugify(obj.question)

\* C12: Category.save, Tag.save and Badge.save set the slug to the slugified
\* name when it is empty before the save and leave it alone when it is not;
\* the second of two saves of an unchanged object changes nothing.
C12_TaxonomySlugOnlyIfEmpty ==
    (Saved /\ obj.model \in TaxonomyModels) =>
        /\ slug_before = <<>> => obj.slug = slugify(obj.name)
        /\ slug_before # <<>> => obj.slug = slug_before
        /\ slug_pc = "saved again" => obj.slug = slug_before

\* A tag named 'B a' without a slug was saved twice and has the slug 'b-a'.
C12_Witness ==
    /\ slug_pc = "saved again"
    /\ obj.model = "Tag"
    /\ obj.name = <<"B", " ", "a">>
    /\ obj.slug = <<"b", "-", "a">>
    /\ slug_before = <<"b", "-", "a">>

(***************************************************************************)
(* Termination of the serializer.                                          *)
(***************************************************************************)
\* The number of objects in x.
RECURSIVE Size(_)
RECURSIVE SizeSum(_, _)
SizeSum(seq, i) == IF i > Len(seq) THEN 0 ELSE Size(seq[i]) + SizeSum(seq, i + 1)
Size(x) == 1 + SizeSum(Children(x), 1)

\* A method that hands its own argument on hands it to a method below it.
Rank(f) ==
    IF f = "_serialize_block_value" THEN 3
    ELSE IF f = "_serialize_value" THEN 2
    ELSE 1

\* What every call must make smaller.
Measure(c) == 3 * Size(c.arg) + Rank(c.fn)

IsLeaf(x) == x.tag \notin Containers \cup {"dict"}

\* C13: to_representation terminates on every finite content tree: a call
\* made on another object than the caller's is made on one of its children
\* (a struct field, a list item, the value of a block), which is smaller; a
\* call made on the caller's own object goes to a method that is lower in
\* the order of the methods, so that every call lowers the measure; and a
\* leaf, a string included, is never taken apart: what is called on it makes
\* no call on anything else and ends.
C13_CallsDescend ==
    /\ caller # NoCall =>
          /\ Measure(call) < Measure(caller)
          /\ call.arg # caller.arg =>
                /\ call.arg \in Range(Children(caller.arg))
                /\ Size(call.arg) < Size(caller.arg)
          /\ call.arg = caller.arg => Rank(call.fn) < Rank(caller.fn)
    /\ (call # NoCall /\ IsLeaf(call.arg)) =>
          \A c \in Calls(call) : c.arg = call.arg /\ Calls(c) = {}

\* The string in a field of a struct was reached, and nothing is called on it.
C13_Witness ==
    /\ call.fn = "_serialize_value"
    /\ call.arg = Str("hello")
    /\ caller.fn = "_serialize_struct_block"
    /\ Size(caller.arg) = 2
    /\ Calls(call) = {}

====
